---- MODULE Spec2Model ----
(***************************************************************************)
(* A model of orpc-shield: the rule abstraction (rule.ts), the logic       *)
(* operators (operators.ts) and the shield middleware (shield.ts).         *)
(*                                                                         *)
(* JavaScript values are records [cls, val, ents]: cls is the value's      *)
(* class, val its primitive payload (the text of a string, the message of  *)
(* an Error, the identity label of an object) and ents its own enumerable  *)
(* properties, in insertion order, as a sequence of [k, v] pairs.          *)
(***************************************************************************)
EXTENDS Integers, Sequences, FiniteSets, TLC

VARIABLES
    rules,      \* the rule tree handed to shield()
    options,    \* the ShieldOptions handed to shield()
    factory,    \* "shield" | "shieldForORPC": the function that builds the middleware
    built,      \* "pending" | "ready" | "invalid": the outcome of shield()
    buildError, \* the message of the Error thrown by shield(), or ""
    req         \* the in-flight state of every call of shieldMiddleware

vars == <<rules, options, factory, built, buildError, req>>

(***************************************************************************)
(* Bounds of the model.                                                    *)
(***************************************************************************)
MaxPathLen == 3
MaxArity == 2
MaxRequests == 2

(***************************************************************************)
(* JavaScript values.                                                      *)
(***************************************************************************)
Val(cls, val, ents) == [cls |-> cls, val |-> val, ents |-> ents]

Undefined == Val("Undefined", "", <<>>)
Null == Val("Null", "", <<>>)
TrueV == Val("Boolean", "true", <<>>)
FalseV == Val("Boolean", "false", <<>>)
StrV(s) == Val("String", s, <<>>)
NumV(s) == Val("Number", s, <<>>)
ErrV(msg) == Val("Error", msg, <<>>)
FnV(tag) == Val("Function", tag, <<>>)
Ent(k, v) == [k |-> k, v |-> v]

\* typeof
TypeOf(v) ==
    CASE v.cls = "Undefined" -> "undefined"
      [] v.cls = "Boolean" -> "boolean"
      [] v.cls = "String" -> "string"
      [] v.cls = "Number" -> "number"
      [] v.cls = "Function" -> "function"
      [] OTHER -> "object"

\* ToBoolean: the values `!v` and `v || w` treat as false
Truthy(v) ==
    CASE v.cls \in {"Undefined", "Null"} -> FALSE
      [] v.cls = "Boolean" -> v.val = "true"
      [] v.cls = "String" -> v.val # ""
      [] v.cls = "Number" -> v.val # "0"
      [] OTHER -> TRUE

\* instanceof Error
IsError(v) == v.cls \in {"Error", "TypeError", "ShieldError", "ORPCError"}

\* String(v) for a value that is not an Error
StringOf(v) ==
    CASE v.cls \in {"String", "Number", "Boolean"} -> v.val
      [] v.cls = "Undefined" -> "undefined"
      [] v.cls = "Null" -> "null"
      [] OTHER -> "[object Object]"

\* the index keys of an array
IdxKey == <<"0", "1", "2", "3", "4">>

(***************************************************************************)
(* Objects.  A class instance owns the fields its constructor assigns and  *)
(* inherits the methods of its prototype.                                  *)
(***************************************************************************)
RuleClasses == {"Rule", "RuleAnd", "RuleOr", "RuleNot", "RuleChain", "RuleRace"}

\* a plain object literal { k1: v1, ... }
ObjV(ents) == Val("Object", "", ents)

\* an array literal [v1, ...]
ArrV(seq) == Val("Array", "", [i \in 1..Len(seq) |-> Ent(IdxKey[i], seq[i])])

\* new Rule(resolver): `resolver` is the tag of the decision function
MkRule(id, resolver) == Val("Rule", id, <<Ent("resolver", FnV(resolver))>>)

\* new RuleAnd(rules), new RuleOr(rules), new RuleChain(rules), new RuleRace(rules)
MkLogic(cls, id, members) == Val(cls, id, <<Ent("rules", ArrV(members))>>)

\* new RuleNot(rule)
MkNot(id, member) == Val("RuleNot", id, <<Ent("rule", member)>>)

\* the built-in rules
allow == MkRule("allow", "allow")
deny == MkRule("deny", "deny")

\* the properties a value inherits from its prototype chain
ProtoKeys(v) ==
    CASE v.cls \in RuleClasses -> {"resolve", "constructor"}
      [] v.cls = "Array" -> {"length", "constructor"}
      [] TypeOf(v) = "object" /\ v.cls # "Null" -> {"constructor"}
      [] OTHER -> {}

OwnKeys(v) == {v.ents[i].k : i \in DOMAIN v.ents}

\* key in v
HasProperty(v, key) == key \in OwnKeys(v) \/ key \in ProtoKeys(v)

\* the lower-case form of a segment
ToLower(seg) == IF seg = "A" THEN "a" ELSE seg

\* v[key] looking the key up without regard to letter case
GetIgnoreCase(v, key) ==
    IF \E i \in DOMAIN v.ents : ToLower(v.ents[i].k) = ToLower(key)
    THEN v.ents[CHOOSE i \in DOMAIN v.ents : ToLower(v.ents[i].k) = ToLower(key)].v
    ELSE IF key \in ProtoKeys(v)
    THEN IF key = "length" THEN NumV(IdxKey[Len(v.ents) + 1]) ELSE FnV(key)
    ELSE Undefined

\* v[key]
Get(v, key) ==
    IF key \in OwnKeys(v)
    THEN v.ents[CHOOSE i \in DOMAIN v.ents : v.ents[i].k = key].v
    ELSE IF key \in ProtoKeys(v)
    THEN IF key = "length" THEN NumV(IdxKey[Len(v.ents) + 1]) ELSE FnV(key)
    ELSE Undefined

\* the elements of an array, in index order
Elems(arr) == [i \in 1..Len(arr.ents) |-> arr.ents[i].v]

(***************************************************************************)
(* shield.ts: findRuleInTree.  Null stands for the `null` it returns.      *)
(***************************************************************************)
RECURSIVE WalkPath(_, _, _)
WalkPath(current, path, i) ==
    IF i > Len(path)
    THEN [returned |-> FALSE, current |-> current]
    ELSE IF ~Truthy(current) \/ TypeOf(current) # "object"
    THEN [returned |-> TRUE, current |-> Null]
    ELSE WalkPath(Get(current, path[i]), path, i + 1)

findRuleInTree(tree, path) ==
    LET w == WalkPath(tree, path, 1)
        current == w.current
    IN  IF w.returned
        THEN Null
        ELSE IF Truthy(current) /\ TypeOf(current) = "object" /\ HasProperty(current, "resolve")
        THEN current
        ELSE Null

(***************************************************************************)
(* shield.ts: validateRuleTree.  The result is <<>> when the tree is       *)
(* accepted and otherwise <<currentPath>>, the path of the entry at which  *)
(* the Error is thrown.                                                    *)
(***************************************************************************)
\* validateRuleTree naming the key of the invalid entry, not the path that leads to it
RECURSIVE ValidateEntriesKeyOnly(_, _, _)
ValidateEntriesKeyOnly(tree, path, i) ==
    IF i > Len(tree.ents)
    THEN <<>>
    ELSE LET key == tree.ents[i].k
             value == tree.ents[i].v
             currentPath == <<key>>
             nested ==
                 IF Truthy(value) /\ TypeOf(value) = "object"
                 THEN IF HasProperty(value, "resolve") /\ TypeOf(Get(value, "resolve")) = "function"
                      THEN <<>>
                      ELSE ValidateEntriesKeyOnly(value, currentPath, 1)
                 ELSE <<currentPath>>
         IN  IF nested # <<>> THEN nested ELSE ValidateEntriesKeyOnly(tree, path, i + 1)

\* validateRuleTree over the entries of tree from the i-th on
RECURSIVE ValidateEntries(_, _, _)
ValidateEntries(tree, path, i) ==
    IF i > Len(tree.ents)
    THEN <<>>
    ELSE LET key == tree.ents[i].k
             value == tree.ents[i].v
             currentPath == Append(path, key)
             nested ==
                 IF Truthy(value) /\ TypeOf(value) = "object"
                 THEN IF HasProperty(value, "resolve") /\ TypeOf(Get(value, "resolve")) = "function"
                      THEN <<>>
                      ELSE ValidateEntries(value, currentPath, 1)
                 ELSE <<currentPath>>
         IN  IF nested # <<>> THEN nested ELSE ValidateEntries(tree, path, i + 1)

validateRuleTree(tree) == ValidateEntries(tree, <<>>, 1)

\* currentPath.join('.')
RECURSIVE Join(_)
Join(path) ==
    IF path = <<>> THEN ""
    ELSE IF Len(path) = 1 THEN path[1]
    ELSE path[1] \o "." \o Join(Tail(path))

\* the message of the Error validateRuleTree throws for the entry at currentPath
InvalidRuleMessage(currentPath) ==
    "Invalid rule at path " \o Join(currentPath) \o ": Expected rule or nested rules object"

\* what shield() throws for the verdict of validateRuleTree: "" when it throws nothing
BuildError(bad) == IF bad = <<>> THEN "" ELSE InvalidRuleMessage(bad[1])

(***************************************************************************)
(* rule.ts: Rule.resolve.  A decision function settles in one of four      *)
(* ways: it returns v, it returns a promise fulfilled with v, it throws v, *)
(* or it returns a promise rejected with v.  `await` unwraps the promise   *)
(* and the try/catch turns either failure into an Error result.            *)
(***************************************************************************)
Settled(how, v) == [how |-> how, v |-> v]

\* Rule.resolve whose catch handles Errors only and throws other values again
RuleResolveRethrows(o) ==
    IF o.how \in {"return", "fulfil"} \/ IsError(o.v)
    THEN Settled("fulfil", o.v)
    ELSE Settled("reject", o.v)

\* Rule.resolve: how its promise settles when the decision function ends as o
RuleResolve(o) ==
    IF o.how \in {"return", "fulfil"}
    THEN Settled("fulfil", o.v)
    ELSE Settled("fulfil", IF IsError(o.v) THEN o.v ELSE ErrV(StringOf(o.v)))

\* resolve of an object that implements IRule with an async method of its own:
\* nothing catches what the method throws
CustomResolve(o) ==
    IF o.how \in {"return", "fulfil"} THEN Settled("fulfil", o.v) ELSE Settled("reject", o.v)

\* the values a decision function of the model answers with
ReturnVals ==
    {TrueV, FalseV, StrV(""), StrV("Not allowed"), ErrV("Forbidden by rule"),
     ObjV(<<Ent("ctx", ObjV(<<>>))>>)}

\* the values a decision function of the model throws
ThrownVals == {ErrV("Rule crashed"), StrV("thrown text"), Val("Object", "", <<>>)}

\* the ways the decision function tagged `resolver` may settle
ResolverOutcomes(resolver) ==
    CASE resolver = "allow" -> {Settled("return", TrueV)}
      [] resolver = "deny" -> {Settled("return", ErrV("Access denied"))}
      [] OTHER ->
            {Settled(h, v) : h \in {"return", "fulfil"}, v \in ReturnVals}
            \cup {Settled(h, v) : h \in {"throw", "reject"}, v \in ThrownVals}

(***************************************************************************)
(* operators.ts: the resolve methods of the logic rules, as the decision   *)
(* each takes at the head of its loop and after an awaited member settles. *)
(* A decision is an instruction: return a result, or call member i.        *)
(***************************************************************************)
Return(v) == [op |-> "return", v |-> v, i |-> 0, errors |-> <<>>]
CallMember(i, errors) == [op |-> "call", v |-> Undefined, i |-> i, errors |-> errors]
CallAll == [op |-> "callAll", v |-> Undefined, i |-> 0, errors |-> <<>>]

\* RuleAnd.resolve: for (const rule of this.rules) at member i
RuleAndLoop(members, i) ==
    IF i <= Len(members) THEN CallMember(i, <<>>) ELSE Return(TrueV)

\* RuleAnd.resolve testing `!result` in place of `result !== true`
RuleAndResumeFalsy(members, i, result) ==
    IF ~Truthy(result) THEN Return(result) ELSE RuleAndLoop(members, i + 1)

\* RuleAnd.resolve: member i settled with result
RuleAndResume(members, i, result) ==
    IF result # TrueV THEN Return(result) ELSE RuleAndLoop(members, i + 1)

\* RuleChain.resolve
RuleChainLoop(members, i) ==
    IF i <= Len(members) THEN CallMember(i, <<>>) ELSE Return(TrueV)

\* RuleChain.resolve running every member and keeping the last failure
RuleChainResumeNoShortCircuit(members, i, result) ==
    IF result # TrueV /\ i = Len(members) THEN Return(result) ELSE RuleChainLoop(members, i + 1)

\* RuleChain.resolve: member i settled with result
RuleChainResume(members, i, result) ==
    IF result # TrueV THEN Return(result) ELSE RuleChainLoop(members, i + 1)

\* RuleOr.resolve: errors[0] || new Error('All rules failed')
RuleOrFinal(errors) ==
    LET first == IF Len(errors) >= 1 THEN errors[1] ELSE Undefined
    IN  IF Truthy(first) THEN first ELSE ErrV("All rules failed")

RuleOrLoop(members, i, errors) ==
    IF i <= Len(members) THEN CallMember(i, errors) ELSE Return(RuleOrFinal(errors))

\* RuleOr.resolve returning at the first failure, as RuleAnd does
RuleOrResumeFailFast(members, i, errors, result) ==
    IF result = TrueV THEN Return(TrueV) ELSE Return(result)

RuleOrResume(members, i, errors, result) ==
    IF result = TrueV THEN Return(TrueV) ELSE RuleOrLoop(members, i + 1, Append(errors, result))

\* RuleNot.resolve testing `result` in place of `result === true`
RuleNotResumeTruthy(result) ==
    IF Truthy(result) THEN Return(ErrV("Rule should not pass")) ELSE Return(TrueV)

\* RuleNot.resolve
RuleNotResume(result) ==
    IF result = TrueV THEN Return(ErrV("Rule should not pass")) ELSE Return(TrueV)

\* the members a logic rule reads from its own field
Members(rule) ==
    IF rule.cls = "RuleNot" THEN <<Get(rule, "rule")>> ELSE Elems(Get(rule, "rules"))

\* resolve mapping its members to promises first, as RuleRace does, in and()
StartOfEager(rule) ==
    CASE rule.cls = "RuleAnd" -> CallAll
      [] rule.cls = "RuleChain" -> RuleChainLoop(Members(rule), 1)
      [] rule.cls = "RuleOr" -> RuleOrLoop(Members(rule), 1, <<>>)
      [] rule.cls = "RuleNot" -> CallMember(1, <<>>)
      [] rule.cls = "RuleRace" -> CallAll

\* resolve with a race() over no rules that returns undefined at once
StartOfEmptyRaceReturns(rule) ==
    CASE rule.cls = "RuleAnd" -> RuleAndLoop(Members(rule), 1)
      [] rule.cls = "RuleChain" -> RuleChainLoop(Members(rule), 1)
      [] rule.cls = "RuleOr" -> RuleOrLoop(Members(rule), 1, <<>>)
      [] rule.cls = "RuleNot" -> CallMember(1, <<>>)
      [] rule.cls = "RuleRace" ->
            IF Len(Members(rule)) = 0 THEN Return(Undefined) ELSE CallAll

\* what resolve does when it is called, up to its first await
StartOf(rule) ==
    CASE rule.cls = "RuleAnd" -> RuleAndLoop(Members(rule), 1)
      [] rule.cls = "RuleChain" -> RuleChainLoop(Members(rule), 1)
      [] rule.cls = "RuleOr" -> RuleOrLoop(Members(rule), 1, <<>>)
      [] rule.cls = "RuleNot" -> CallMember(1, <<>>)
      [] rule.cls = "RuleRace" -> CallAll

\* what resolve does when the promise it awaits is fulfilled with result
ResumeOf(task, result) ==
    CASE task.rule.cls = "RuleAnd" -> RuleAndResume(Members(task.rule), task.i, result)
      [] task.rule.cls = "RuleChain" -> RuleChainResume(Members(task.rule), task.i, result)
      [] task.rule.cls = "RuleOr" -> RuleOrResume(Members(task.rule), task.i, task.errors, result)
      [] task.rule.cls = "RuleNot" -> RuleNotResume(result)
      [] task.rule.cls = "RuleRace" -> Return(result)

(***************************************************************************)
(* The calls of resolve in flight for one request: tasks[t] is one call,   *)
(* made by tasks[t].parent (0: by shieldMiddleware) for its member idx.    *)
(* doneAt orders the calls by the time their promise settled.              *)
(***************************************************************************)
NewTask(rule, params, parent, idx) ==
    [rule |-> rule, params |-> params, parent |-> parent, idx |-> idx, pc |-> "await", i |-> 0,
     errors |-> <<>>, settled |-> Settled("pending", Undefined), result |-> Undefined,
     doneAt |-> 0]

\* a call whose promise is fulfilled ("done") or rejected ("failed")
HasSettled(task) == task.pc \in {"done", "failed"}

NumDone(ts) == Cardinality({t \in DOMAIN ts : HasSettled(ts[t])})

Finish(ts, t, v) ==
    [ts EXCEPT ![t].pc = "done", ![t].result = v, ![t].doneAt = NumDone(ts) + 1]

\* the promise of call t is rejected with error
Fail(ts, t, error) ==
    [ts EXCEPT ![t].pc = "failed", ![t].result = error, ![t].doneAt = NumDone(ts) + 1]

\* the promise of call t settles as o
Settle(ts, t, o) == IF o.how = "fulfil" THEN Finish(ts, t, o.v) ELSE Fail(ts, t, o.v)

RECURSIVE Call(_, _, _, _, _)
RECURSIVE Apply(_, _, _)
RECURSIVE CallEach(_, _, _, _)

\* rule.resolve(params), run to its first await
Call(ts, rule, params, parent, idx) ==
    LET me == Len(ts) + 1
        ts1 == Append(ts, NewTask(rule, params, parent, idx))
    IN  IF rule.cls \in {"Rule", "Object"} THEN ts1 ELSE Apply(ts1, me, StartOf(rule))

\* carry out the instruction of call t
Apply(ts, t, ins) ==
    CASE ins.op = "return" -> Finish(ts, t, ins.v)
      [] ins.op = "call" ->
            Call([ts EXCEPT ![t].i = ins.i, ![t].errors = ins.errors],
                 Members(ts[t].rule)[ins.i], ts[t].params, t, ins.i)
      [] ins.op = "callAll" -> CallEach(ts, t, Members(ts[t].rule), 1)

\* this.rules.map((rule) => rule.resolve(params))
CallEach(ts, t, members, i) ==
    IF i > Len(members) THEN ts ELSE CallEach(Call(ts, members[i], ts[t].params, t, i), t, members, i + 1)

\* the calls made by call t
Children(ts, t) == {c \in DOMAIN ts : ts[c].parent = t}

\* RuleRace.resolve taking the settled member that comes first in this.rules
AwaitedByPosition(ts, t) ==
    IF ts[t].rule.cls = "RuleRace"
    THEN {c \in Children(ts, t) :
            /\ HasSettled(ts[c])
            /\ \A d \in Children(ts, t) : HasSettled(ts[d]) => ts[c].idx <= ts[d].idx}
    ELSE {c \in Children(ts, t) : ts[c].idx = ts[t].i /\ HasSettled(ts[c])}

\* the settled call whose result the await of call t receives
Awaited(ts, t) ==
    IF ts[t].rule.cls = "RuleRace"
    THEN {c \in Children(ts, t) :
            /\ HasSettled(ts[c])
            /\ \A d \in Children(ts, t) : HasSettled(ts[d]) => ts[c].doneAt <= ts[d].doneAt}
    ELSE {c \in Children(ts, t) : ts[c].idx = ts[t].i /\ HasSettled(ts[c])}

(***************************************************************************)
(* shield.ts: the errors shieldMiddleware throws.                          *)
(***************************************************************************)
\* a request path as a JavaScript array of strings
PathV(path) == ArrV([i \in 1..Len(path) |-> StrV(path[i])])

\* new ShieldError(message, path)
ShieldError(message, path) == Val("ShieldError", message, <<Ent("path", PathV(path))>>)

\* new ORPCError(code, { message })
ORPCError(code, message) == Val("ORPCError", message, <<Ent("code", code)>>)

\* the TypeError of calling a value that is not a function
NotAFunction == Val("TypeError", "rule.resolve is not a function", <<>>)

\* processRuleResult testing `if (result)` in place of `result === true`
processRuleResultTruthy(result, path) ==
    IF Truthy(result) /\ ~IsError(result)
    THEN Undefined
    ELSE IF IsError(result)
    THEN ShieldError(result.val, path)
    ELSE ShieldError("Access denied", path)

\* processRuleResult: Undefined when it returns, otherwise the error it throws
processRuleResult(result, path) ==
    IF result = TrueV
    THEN Undefined
    ELSE IF TypeOf(result) = "string"
    THEN ShieldError(result.val, path)
    ELSE IF IsError(result)
    THEN ShieldError(result.val, path)
    ELSE ShieldError("Access denied", path)

\* the options with the fallback defaulting to deny
WithDefaultsDeny(opts) ==
    [fallbackRule |-> IF opts.fallbackRule = Undefined THEN deny ELSE opts.fallbackRule,
     allowExternalErrors |->
        IF opts.allowExternalErrors = Undefined THEN TrueV ELSE opts.allowExternalErrors,
     debug |-> IF opts.debug = Undefined THEN FalseV ELSE opts.debug,
     denyErrorCode |-> opts.denyErrorCode]

\* the options after destructuring with their defaults
WithDefaults(opts) ==
    [fallbackRule |-> IF opts.fallbackRule = Undefined THEN allow ELSE opts.fallbackRule,
     allowExternalErrors |->
        IF opts.allowExternalErrors = Undefined THEN TrueV ELSE opts.allowExternalErrors,
     debug |-> IF opts.debug = Undefined THEN FalseV ELSE opts.debug,
     denyErrorCode |-> opts.denyErrorCode]

\* the catch block throwing the error on as it caught it when debug is set
CaughtRawInDebug(error, path, opts) ==
    LET o == WithDefaults(opts)
        message == IF IsError(error) THEN error.val ELSE StringOf(error)
    IN  IF Truthy(o.debug)
        THEN error
        ELSE IF error.cls = "ShieldError"
        THEN IF Truthy(o.denyErrorCode)
             THEN ORPCError(o.denyErrorCode, error.val)
             ELSE error
        ELSE IF Truthy(o.allowExternalErrors) /\ IsError(error)
        THEN error
        ELSE IF Truthy(o.denyErrorCode)
        THEN ORPCError(o.denyErrorCode, message)
        ELSE ShieldError(message, path)

\* the catch block throwing the ShieldError again whatever denyErrorCode is
CaughtUntagged(error, path, opts) ==
    LET o == WithDefaults(opts)
        message == IF IsError(error) THEN error.val ELSE StringOf(error)
    IN  IF error.cls = "ShieldError"
        THEN error
        ELSE IF Truthy(o.allowExternalErrors) /\ IsError(error)
        THEN error
        ELSE IF Truthy(o.denyErrorCode)
        THEN ORPCError(o.denyErrorCode, message)
        ELSE ShieldError(message, path)

\* the catch block of shieldMiddleware: the error it throws for a caught error
Caught(error, path, opts) ==
    LET o == WithDefaults(opts)
        message == IF IsError(error) THEN error.val ELSE StringOf(error)
    IN  IF error.cls = "ShieldError"
        THEN IF Truthy(o.denyErrorCode)
             THEN ORPCError(o.denyErrorCode, error.val)
             ELSE error
        ELSE IF Truthy(o.allowExternalErrors) /\ IsError(error)
        THEN error
        ELSE IF Truthy(o.denyErrorCode)
        THEN ORPCError(o.denyErrorCode, message)
        ELSE ShieldError(message, path)

\* shieldForORPC: { denyErrorCode: 'FORBIDDEN', ...options }
ShieldForORPCOptions(opts) ==
    IF opts.denyErrorCode = Undefined
    THEN [opts EXCEPT !.denyErrorCode = StrV("FORBIDDEN")]
    ELSE opts

\* { ...options, debug: true }
ShieldDebugOptions(opts) == [opts EXCEPT !.debug = TrueV]

(***************************************************************************)
(* shield.ts: what shieldMiddleware writes to the console when debug is    *)
(* set.                                                                    *)
(***************************************************************************)
\* `${v}` in a template literal
TemplateOf(v) ==
    IF IsError(v)
    THEN IF v.val = "" THEN v.cls ELSE v.cls \o ": " \o v.val
    ELSE StringOf(v)

\* console.log(text) and console.error(text, arg)
Line(level, text, arg) == [level |-> level, text |-> text, arg |-> arg]

ProcessingLine(path) ==
    Line("log", "[oRPC Shield] Processing path: " \o Join(path), Undefined)

NoRuleLine(path) ==
    Line("log", "[oRPC Shield] No rule found for " \o Join(path) \o ", using fallback", Undefined)

ResultLine(path, result) ==
    Line("log", "[oRPC Shield] Rule result for " \o Join(path) \o ": " \o TemplateOf(result),
         Undefined)

ErrorLine(path, error) ==
    Line("error", "[oRPC Shield] Error processing " \o Join(path) \o ":", error)

\* request q after `if (debug) { console... }` for each of lines
Logged(q, lines, opts) ==
    IF Truthy(WithDefaults(opts).debug) THEN [q EXCEPT !.log = @ \o lines] ELSE q

\* shieldMiddleware falling back to allow whatever options.fallbackRule is
GoverningIgnoresFallback(found, opts) ==
    IF ~Truthy(found) THEN allow ELSE found

\* shieldMiddleware evaluating the fallback rule whenever the options name one
GoverningFallbackFirst(found, opts) ==
    IF opts.fallbackRule # Undefined THEN opts.fallbackRule
    ELSE IF ~Truthy(found) THEN WithDefaults(opts).fallbackRule ELSE found

\* the rule shieldMiddleware evaluates: the rule found, or the fallback rule
Governing(found, opts) ==
    IF ~Truthy(found) THEN WithDefaults(opts).fallbackRule ELSE found

(***************************************************************************)
(* The continuation `next`: what the wrapped handler answers with.         *)
(***************************************************************************)
HandlerResult == Val("Object", "handler result", <<>>)
HandlerThrown == {ErrV("Handler failed"), StrV("handler text")}

\* next called with a copy of the context to which the middleware adds a field
NextOptionsExtended(context) ==
    ObjV(<<Ent("context", [context EXCEPT !.ents = Append(@, Ent("shield", TrueV))])>>)

\* the argument { context } of next
NextOptions(context) == ObjV(<<Ent("context", context)>>)

\* how the call next({ context }) itself ends: it throws, or returns a value
\* or a promise that is still pending
NextCallOutcomes ==
    {Settled("throw", e) : e \in HandlerThrown} \cup {Settled("pending", Undefined)}

\* how the value next returned settles
NextSettleOutcomes ==
    {Settled(h, HandlerResult) : h \in {"return", "fulfil"}}
    \cup {Settled("reject", e) : e \in HandlerThrown}

(***************************************************************************)
(* The inputs of the model: rule trees, options and request paths.         *)
(***************************************************************************)
Segments == {"a", "A", "resolve", "rule", "rules", "0"}

\* every request path of at most MaxPathLen segments
Paths == UNION {[1..n -> Segments] : n \in 0..MaxPathLen}

\* the leaf rules built with rule()(resolver)
Leaf(n) == MkRule(<<"L1", "L2", "L3", "L4">>[n], "any")

\* the member lists <<Leaf(1), ..., Leaf(n)>>
LeafLists == {[i \in 1..n |-> Leaf(i)] : n \in 0..MaxArity}

\* and(...), or(...), chain(...), race(...) over leaf rules, and not(rule)
FlatRules ==
    {MkLogic(cls, cls, ms) : cls \in {"RuleAnd", "RuleOr", "RuleChain", "RuleRace"},
                              ms \in LeafLists}
    \cup {MkNot("RuleNot", m) : m \in {Leaf(1), allow, deny}}

\* logic rules whose members are logic rules
NestedRules ==
    {MkLogic("RuleAnd", "outer", <<MkLogic("RuleOr", "inner", <<Leaf(1), Leaf(2)>>), Leaf(3)>>),
     MkLogic("RuleOr", "outer", <<MkLogic("RuleAnd", "inner", <<Leaf(1), Leaf(2)>>), Leaf(3)>>),
     MkLogic("RuleChain", "outer", <<MkNot("inner", Leaf(1)), Leaf(2)>>),
     MkLogic("RuleAnd", "outer", <<allow, Leaf(1)>>),
     MkLogic("RuleOr", "outer", <<deny, Leaf(1)>>),
     MkLogic("RuleRace", "outer", <<MkLogic("RuleAnd", "inner", <<>>), Leaf(1)>>),
     MkNot("outer", MkLogic("RuleAnd", "inner", <<Leaf(1), Leaf(2)>>))}

\* the object { p1: { p2: ... value } }
RECURSIVE Nest(_, _)
Nest(path, value) ==
    IF path = <<>> THEN value ELSE ObjV(<<Ent(Head(path), Nest(Tail(path), value))>>)

\* the places of a rule in the trees of the model
TreePaths ==
    {<<k>> : k \in {"a", "A", "resolve"}}
    \cup {<<k1, k2>> : k1 \in {"a", "A"}, k2 \in {"a", "A", "resolve"}}

\* the values a malformed tree holds in place of a rule
NotRules == {StrV("not-a-rule"), Null, FnV("any")}

\* trees for the resolver: one rule at every place, two rules, malformed trees
ResolverTrees ==
    {ObjV(<<>>)}
    \cup {Nest(p, r) : p \in TreePaths,
                       r \in {Leaf(1), MkNot("RuleNot", Leaf(2)),
                              MkLogic("RuleAnd", "RuleAnd", <<Leaf(2), Leaf(3)>>)}}
    \cup {ObjV(<<Ent("a", Leaf(1)), Ent("A", ObjV(<<Ent("a", Leaf(2))>>))>>),
          ObjV(<<Ent("A", ObjV(<<Ent("a", Leaf(1)), Ent("A", deny)>>)), Ent("a", allow)>>)}
    \cup {Nest(p, v) : p \in {<<"a">>, <<"A", "a">>}, v \in NotRules}
    \cup {ObjV(<<Ent("a", Leaf(1)), Ent("A", ObjV(<<Ent("a", v)>>))>>) : v \in NotRules}
    \cup {ObjV(<<Ent("a", ObjV(<<Ent("a", allow), Ent("A", StrV("not-a-rule"))>>)),
                 Ent("A", Null)>>)}

\* every combination of options
AllOptions ==
    [fallbackRule : {Undefined, allow, deny, MkRule("fallback", "any"), MkNot("fallback", allow)},
     allowExternalErrors : {Undefined, TrueV, FalseV},
     debug : {Undefined},
     denyErrorCode : {Undefined, StrV("FORBIDDEN")}]

NoOptions ==
    [fallbackRule |-> Undefined, allowExternalErrors |-> Undefined, debug |-> Undefined,
     denyErrorCode |-> Undefined]

\* the inputs of one run: a tree, the options and the path of the request
Input(tree, opts, path) ==
    [rules |-> tree, options |-> opts, path |-> path, factory |-> "shield"]

\* an object of the caller's own that implements IRule with an async resolve
CustomRule(id) == Val("Object", id, <<Ent("resolve", FnV("any"))>>)

\* the rules built around an object implementing IRule
CustomRules ==
    {CustomRule("custom"),
     MkLogic("RuleAnd", "RuleAnd", <<Leaf(1), CustomRule("custom")>>),
     MkLogic("RuleRace", "RuleRace", <<CustomRule("custom"), Leaf(1)>>),
     MkNot("RuleNot", CustomRule("custom"))}

\* trees holding a value that is neither a rule nor a mapping, which
\* validateRuleTree walks through as if it were a nested tree
ArrayTrees == {Nest(<<"a">>, ArrV(<<>>)), Nest(<<"a">>, ArrV(<<Leaf(1)>>))}

\* the options that set allowExternalErrors and denyErrorCode only
ErrorOptions == {o \in AllOptions : o.fallbackRule = Undefined}

\* the trees of the runs with debug: a rule, an object implementing IRule
\* and a place that holds no rule
DebugTrees ==
    {Nest(<<"a">>, Leaf(1)), Nest(<<"a">>, CustomRule("custom")),
     ObjV(<<Ent("a", Leaf(1)), Ent("A", StrV("not-a-rule"))>>)}

Inputs ==
    \* every resolver tree with every path
    {Input(t, NoOptions, p) : t \in ResolverTrees, p \in Paths}
    \* every rule at one place
    \cup {Input(Nest(<<"a">>, r), NoOptions, <<"a">>) : r \in FlatRules \cup NestedRules}
    \* every combination of options
    \cup {Input(t, o, p) :
            t \in {ObjV(<<>>), Nest(<<"a">>, Leaf(1)), Nest(<<"a", "A">>, deny)},
            o \in AllOptions,
            p \in {<<>>, <<"a">>, <<"A">>, <<"a", "A">>}}
    \* arrays in the place of a rule
    \cup {Input(t, NoOptions, <<"a">>) : t \in ArrayTrees}
    \* the rules around an object implementing IRule, with the error options
    \cup {Input(Nest(<<"a">>, c), o, <<"a">>) : c \in CustomRules, o \in ErrorOptions}
    \* debug named in the options, and shieldDebug
    \cup {[Input(t, [o EXCEPT !.debug = d], p) EXCEPT !.factory = f] :
            t \in DebugTrees, o \in ErrorOptions, d \in {Undefined, TrueV, FalseV},
            p \in {<<"a">>, <<"A">>}, f \in {"shield", "shieldDebug"}}
    \* shieldForORPC, whose options cannot name denyErrorCode
    \cup {[Input(t, o, <<"a">>) EXCEPT !.factory = "shieldForORPC"] :
            t \in {Nest(<<"a">>, Leaf(1)), Nest(<<"a">>, CustomRule("custom"))},
            o \in {o \in ErrorOptions : o.denyErrorCode = Undefined}}

(***************************************************************************)
(* The state machine.                                                      *)
(***************************************************************************)
Requests == {1}

NewRequest(path) ==
    [pc |-> "idle",            \* idle, evaluating, delegated, returned, raised
     context |-> Val("Object", "context", <<>>),
     input |-> Val("Object", "input", <<>>),
     path |-> path,
     phases |-> <<>>,          \* the states the request went through
     found |-> Undefined,      \* what findRuleInTree returned
     rule |-> Undefined,       \* the rule evaluated
     tasks |-> <<>>,           \* the calls of resolve
     result |-> Undefined,     \* the result of the rule
     nextCalls |-> 0,          \* how often next was called
     nextArg |-> Undefined,    \* the argument next was called with
     nextSettled |-> Settled("pending", Undefined),  \* how next ended
     log |-> <<>>,             \* what was written to the console
     outcome |-> Undefined]    \* the value returned or the error thrown

Init ==
    \E in \in Inputs :
        /\ rules = in.rules
        /\ options = in.options
        /\ factory = in.factory
        /\ built = "pending"
        /\ buildError = ""
        /\ req = [r \in Requests |-> NewRequest(in.path)]

\* the argument { ctx: context, path, input } of rule.resolve
Params(q) == [ctx |-> q.context, path |-> q.path, input |-> q.input]

\* shield(rules, options)
Shield ==
    /\ built = "pending"
    /\ factory = "shield"
    /\ LET bad == validateRuleTree(rules)
       IN  /\ built' = IF bad = <<>> THEN "ready" ELSE "invalid"
           /\ buildError' = BuildError(bad)
    /\ UNCHANGED <<rules, options, factory, req>>

\* shieldForORPC(rules, options): shield(rules, { denyErrorCode: 'FORBIDDEN', ...options })
ShieldForORPC ==
    /\ built = "pending"
    /\ factory = "shieldForORPC"
    /\ options' = ShieldForORPCOptions(options)
    /\ LET bad == validateRuleTree(rules)
       IN  /\ built' = IF bad = <<>> THEN "ready" ELSE "invalid"
           /\ buildError' = BuildError(bad)
    /\ UNCHANGED <<rules, factory, req>>

\* shieldDebug(rules, options): shield(rules, { ...options, debug: true })
ShieldDebug ==
    /\ built = "pending"
    /\ factory = "shieldDebug"
    /\ options' = ShieldDebugOptions(options)
    /\ LET bad == validateRuleTree(rules)
       IN  /\ built' = IF bad = <<>> THEN "ready" ELSE "invalid"
           /\ buildError' = BuildError(bad)
    /\ UNCHANGED <<rules, factory, req>>

\* shieldMiddleware keeping the rule it resolved last in a variable of the closure
\* and using it again while another request is in flight
ShieldMiddlewareCached(r) ==
    /\ built = "ready"
    /\ req[r].pc = "idle"
    /\ LET q == req[r]
           others == {s \in DOMAIN req : s # r /\ req[s].pc # "idle"}
           found == IF others # {}
                    THEN req[CHOOSE s \in others : TRUE].found
                    ELSE findRuleInTree(rules, q.path)
           rule == Governing(found, options)
           callable == TypeOf(Get(rule, "resolve")) = "function"
       IN  req' = [req EXCEPT ![r] =
                IF callable
                THEN [q EXCEPT !.pc = "evaluating",
                               !.phases = <<"resolving", "evaluating">>,
                               !.found = found,
                               !.rule = rule,
                               !.tasks = Call(<<>>, rule, Params(q), 0, 0)]
                ELSE [q EXCEPT !.pc = "raised",
                               !.phases = <<"resolving", "raised">>,
                               !.found = found,
                               !.rule = rule,
                               !.outcome = Caught(NotAFunction, q.path, options)]]
    /\ UNCHANGED <<rules, options, factory, built, buildError>>

\* shieldMiddleware({ context, path, next }, input), up to its first await
ShieldMiddleware(r) ==
    /\ built = "ready"
    /\ req[r].pc = "idle"
    /\ LET q == req[r]
           found == findRuleInTree(rules, q.path)
           rule == Governing(found, options)
           callable == TypeOf(Get(rule, "resolve")) = "function"
           lines == <<ProcessingLine(q.path)>>
                    \o (IF ~Truthy(found) THEN <<NoRuleLine(q.path)>> ELSE <<>>)
       IN  req' = [req EXCEPT ![r] =
                IF callable
                THEN Logged([q EXCEPT !.pc = "evaluating",
                                      !.phases = <<"resolving", "evaluating">>,
                                      !.found = found,
                                      !.rule = rule,
                                      !.tasks = Call(<<>>, rule, Params(q), 0, 0)],
                            lines, options)
                ELSE Logged([q EXCEPT !.pc = "raised",
                                      !.phases = <<"resolving", "raised">>,
                                      !.found = found,
                                      !.rule = rule,
                                      !.outcome = Caught(NotAFunction, q.path, options)],
                            lines \o <<ErrorLine(q.path, NotAFunction)>>, options)]
    /\ UNCHANGED <<rules, options, factory, built, buildError>>

\* a decision function that is cancelled once the race() that called it has
\* returned: it never settles then
SettleRuleCancelled(r, t) ==
    /\ req[r].pc \in {"evaluating", "delegated", "returned", "raised"}
    /\ t \in DOMAIN req[r].tasks
    /\ req[r].tasks[t].rule.cls = "Rule"
    /\ req[r].tasks[t].pc = "await"
    /\ \A p \in DOMAIN req[r].tasks :
          (p = req[r].tasks[t].parent /\ req[r].tasks[p].rule.cls = "RuleRace")
              => ~HasSettled(req[r].tasks[p])
    /\ \E o \in ResolverOutcomes(Get(req[r].tasks[t].rule, "resolver").val) :
          req' = [req EXCEPT ![r].tasks = [Settle(@, t, RuleResolve(o)) EXCEPT ![t].settled = o]]
    /\ UNCHANGED <<rules, options, factory, built, buildError>>

\* the decision function of a Rule settles
SettleRule(r, t) ==
    /\ req[r].pc \in {"evaluating", "delegated", "returned", "raised"}
    /\ t \in DOMAIN req[r].tasks
    /\ req[r].tasks[t].rule.cls = "Rule"
    /\ req[r].tasks[t].pc = "await"
    /\ \E o \in ResolverOutcomes(Get(req[r].tasks[t].rule, "resolver").val) :
          req' = [req EXCEPT ![r].tasks = [Settle(@, t, RuleResolve(o)) EXCEPT ![t].settled = o]]
    /\ UNCHANGED <<rules, options, factory, built, buildError>>

\* the resolve method of an object implementing IRule settles
SettleCustom(r, t) ==
    /\ req[r].pc \in {"evaluating", "delegated", "returned", "raised"}
    /\ t \in DOMAIN req[r].tasks
    /\ req[r].tasks[t].rule.cls = "Object"
    /\ req[r].tasks[t].pc = "await"
    /\ \E o \in ResolverOutcomes(Get(req[r].tasks[t].rule, "resolve").val) :
          req' = [req EXCEPT ![r].tasks = [Settle(@, t, CustomResolve(o)) EXCEPT ![t].settled = o]]
    /\ UNCHANGED <<rules, options, factory, built, buildError>>

\* a logic rule resumes after the promise it awaits settled
ResumeLogic(r, t) ==
    /\ t \in DOMAIN req[r].tasks
    /\ req[r].tasks[t].rule.cls \notin {"Rule", "Object"}
    /\ req[r].tasks[t].pc = "await"
    /\ \E c \in Awaited(req[r].tasks, t) :
          req' = [req EXCEPT ![r].tasks =
                    IF req[r].tasks[c].pc = "failed"
                    THEN Fail(@, t, req[r].tasks[c].result)
                    ELSE Apply(@, t, ResumeOf(req[r].tasks[t], req[r].tasks[c].result))]
    /\ UNCHANGED <<rules, options, factory, built, buildError>>

\* shieldMiddleware calling next before it processes the rule's result
ResumeShieldNextFirst(r) ==
    /\ req[r].pc = "evaluating"
    /\ req[r].tasks[1].pc = "done"
    /\ LET q == req[r]
           result == q.tasks[1].result
           denied == processRuleResult(result, q.path)
       IN  req' = [req EXCEPT ![r] =
                IF denied # Undefined
                THEN [q EXCEPT !.pc = "raised",
                               !.phases = q.phases \o <<"denied", "raised">>,
                               !.result = result,
                               !.nextCalls = q.nextCalls + 1,
                               !.nextArg = NextOptions(q.context),
                               !.outcome = Caught(denied, q.path, options)]
                ELSE [q EXCEPT !.pc = "delegated",
                               !.phases = q.phases \o <<"allowed", "delegated">>,
                               !.result = result,
                               !.nextCalls = q.nextCalls + 1,
                               !.nextArg = NextOptions(q.context)]]
    /\ UNCHANGED <<rules, options, factory, built, buildError>>

\* shieldMiddleware resumes with the rule's result
ResumeShield(r) ==
    /\ req[r].pc = "evaluating"
    /\ HasSettled(req[r].tasks[1])
    /\ LET q == req[r]
           result == q.tasks[1].result
           denied == processRuleResult(result, q.path)
       IN  IF q.tasks[1].pc = "failed"
           THEN req' = [req EXCEPT ![r] =
                    Logged([q EXCEPT !.pc = "raised",
                                     !.phases = q.phases \o <<"faulted", "raised">>,
                                     !.outcome = Caught(q.tasks[1].result, q.path, options)],
                           <<ErrorLine(q.path, q.tasks[1].result)>>, options)]
           ELSE IF denied # Undefined
           THEN req' = [req EXCEPT ![r] =
                    Logged([q EXCEPT !.pc = "raised",
                                     !.phases = q.phases \o <<"denied", "raised">>,
                                     !.result = result,
                                     !.outcome = Caught(denied, q.path, options)],
                           <<ResultLine(q.path, result), ErrorLine(q.path, denied)>>, options)]
           ELSE \E o \in NextCallOutcomes :
                    req' = [req EXCEPT ![r] =
                        IF o.how = "throw"
                        THEN Logged([q EXCEPT !.pc = "raised",
                                              !.phases = q.phases
                                                            \o <<"allowed", "delegated", "raised">>,
                                              !.result = result,
                                              !.nextCalls = q.nextCalls + 1,
                                              !.nextArg = NextOptions(q.context),
                                              !.nextSettled = o,
                                              !.outcome = Caught(o.v, q.path, options)],
                                    <<ResultLine(q.path, result), ErrorLine(q.path, o.v)>>,
                                    options)
                        ELSE Logged([q EXCEPT !.pc = "delegated",
                                              !.phases = q.phases \o <<"allowed", "delegated">>,
                                              !.result = result,
                                              !.nextCalls = q.nextCalls + 1,
                                              !.nextArg = NextOptions(q.context)],
                                    <<ResultLine(q.path, result)>>, options)]
    /\ UNCHANGED <<rules, options, factory, built, buildError>>

\* the earlier shieldMiddleware, `return await next({ context })`: a rejection
\* of next is caught as well
NextSettlesAwaited(r) ==
    /\ req[r].pc = "delegated"
    /\ \E o \in NextSettleOutcomes :
          req' = [req EXCEPT ![r] =
                IF o.how = "reject"
                THEN [@ EXCEPT !.pc = "raised", !.phases = @ \o <<"raised">>,
                               !.nextSettled = o,
                               !.outcome = Caught(o.v, req[r].path, options)]
                ELSE [@ EXCEPT !.pc = "returned", !.phases = @ \o <<"returned">>,
                               !.nextSettled = o, !.outcome = o.v]]
    /\ UNCHANGED <<rules, options, factory, built, buildError>>

\* the value next returned settles: `return next({ context })` hands it on
NextSettles(r) ==
    /\ req[r].pc = "delegated"
    /\ \E o \in NextSettleOutcomes :
          req' = [req EXCEPT ![r] =
                IF o.how = "reject"
                THEN [@ EXCEPT !.pc = "raised", !.phases = @ \o <<"raised">>,
                               !.nextSettled = o, !.outcome = o.v]
                ELSE [@ EXCEPT !.pc = "returned", !.phases = @ \o <<"returned">>,
                               !.nextSettled = o, !.outcome = o.v]]
    /\ UNCHANGED <<rules, options, factory, built, buildError>>

Next ==
    \/ Shield
    \/ ShieldForORPC
    \/ ShieldDebug
    \/ \E r \in DOMAIN req : ShieldMiddleware(r)
    \/ \E r \in DOMAIN req : \E t \in DOMAIN req[r].tasks : SettleRule(r, t)
    \/ \E r \in DOMAIN req : \E t \in DOMAIN req[r].tasks : SettleCustom(r, t)
    \/ \E r \in DOMAIN req : \E t \in DOMAIN req[r].tasks : ResumeLogic(r, t)
    \/ \E r \in DOMAIN req : ResumeShield(r)
    \/ \E r \in DOMAIN req : NextSettles(r)

Spec == Init /\ [][Next]_vars

(***************************************************************************)
(* The event loop runs every callback that is ready: a promise that can    *)
(* settle does settle, and a function waiting on a settled promise is      *)
(* resumed.                                                                *)
(***************************************************************************)
\* the runs for the rules and the options; the trees that only vary the place
\* of a rule are left to Spec
InitFair ==
    \E in \in {i \in Inputs : i.rules \notin ResolverTrees} :
        /\ rules = in.rules
        /\ options = in.options
        /\ factory = in.factory
        /\ built = "pending"
        /\ buildError = ""
        /\ req = [r \in Requests |-> NewRequest(in.path)]

FairSpec == InitFair /\ [][Next]_vars /\ WF_vars(Next)

(***************************************************************************)
(* Several requests in flight on one middleware: every call of             *)
(* shieldMiddleware has its own context, path and input, and the calls     *)
(* interleave at their awaits.                                             *)
(***************************************************************************)
\* a tree with a rule that allows and a logic rule over a caller's own IRule object
ConcurrentTree ==
    ObjV(<<Ent("a", allow),
           Ent("A", MkNot("RuleNot", Val("Object", "custom", <<Ent("resolve", FnV("allow"))>>)))>>)

\* the contexts of the concurrent requests, one object each
ContextNames == <<"context1", "context2", "context3", "context4">>

InitConcurrent ==
    \E f \in {"shield", "shieldForORPC", "shieldDebug"} :
    \E paths \in [1..MaxRequests -> {<<"a">>, <<"A">>, <<"0">>}] :
        /\ rules = ConcurrentTree
        /\ options = [NoOptions EXCEPT !.fallbackRule = deny]
        /\ factory = f
        /\ built = "pending"
        /\ buildError = ""
        /\ req = [r \in 1..MaxRequests |->
                    [NewRequest(paths[r]) EXCEPT
                        !.context = Val("Object", ContextNames[r], <<>>)]]

SpecConcurrent == InitConcurrent /\ [][Next]_vars

(***************************************************************************)
(* What the rule tree maps a path to, by the data model of the tree alone: *)
(* a tree is a mapping from segment to Rule or nested tree.                *)
(***************************************************************************)
RECURSIVE NodeAt(_, _)
NodeAt(tree, path) ==
    IF path = <<>>
    THEN tree
    ELSE IF tree.cls = "Object" /\ \E i \in DOMAIN tree.ents : tree.ents[i].k = Head(path)
    THEN NodeAt(tree.ents[CHOOSE i \in DOMAIN tree.ents : tree.ents[i].k = Head(path)].v,
                Tail(path))
    ELSE Undefined

\* the Rule the tree maps path to, or Null
MappedRule(tree, path) ==
    LET n == NodeAt(tree, path) IN IF n.cls \in RuleClasses THEN n ELSE Null

\* the request went through state `phase`
Went(q, phase) == \E i \in DOMAIN q.phases : q.phases[i] = phase

\* the message of the denial a request ended in
IsDenial(e) == e.cls \in {"ShieldError", "ORPCError"}

C2_ContinuationOnlyAfterAllow ==
    \A r \in Requests :
        LET q == req[r]
        IN  /\ q.nextCalls <= 1
            /\ q.nextCalls = 1 =>
                  /\ q.tasks[1].pc = "done"
                  /\ q.tasks[1].result = TrueV
                  /\ Len(q.phases) >= 4
                  /\ SubSeq(q.phases, 1, 4) = <<"resolving", "evaluating", "allowed", "delegated">>
            /\ Went(q, "delegated") <=> q.nextCalls = 1
            /\ Went(q, "denied") => q.nextCalls = 0

C2_Witness ==
    \E r \in Requests :
        /\ req[r].pc = "returned"
        /\ req[r].nextCalls = 1
        /\ req[r].phases = <<"resolving", "evaluating", "allowed", "delegated", "returned">>

(***************************************************************************)
(* C3: when the resolver reports not-found the request is decided by       *)
(* config.fallbackRule evaluated on the request's context, path and input; *)
(* with fallbackRule = deny it ends in a denial "Access denied".           *)
(***************************************************************************)
C3_FallbackGoverns ==
    \A r \in Requests :
        LET q == req[r]
            fallback == IF options.fallbackRule = Undefined THEN allow ELSE options.fallbackRule
        IN  (q.pc # "idle" /\ q.found = Null) =>
                /\ q.rule = fallback
                /\ q.tasks[1].rule = fallback
                /\ q.tasks[1].params = [ctx |-> q.context, path |-> q.path, input |-> q.input]
                /\ \A t \in DOMAIN q.tasks : q.tasks[t].parent = 0 => t = 1
                /\ q.pc # "evaluating" =>
                      /\ q.result = q.tasks[1].result
                      /\ q.nextCalls = 1 <=> q.result = TrueV
                /\ fallback = deny =>
                      /\ q.pc \in {"evaluating", "raised"}
                      /\ q.nextCalls = 0
                      /\ q.pc = "raised" => IsDenial(q.outcome) /\ q.outcome.val = "Access denied"

C3_Witness ==
    \E r \in Requests :
        /\ options.fallbackRule = deny
        /\ rules # ObjV(<<>>)
        /\ req[r].found = Null
        /\ req[r].pc = "raised"
        /\ req[r].outcome.val = "Access denied"

(***************************************************************************)
(* C4: with no fallbackRule configured the fallback is allow: a path that  *)
(* resolves to no rule is not denied and next is invoked.                  *)
(***************************************************************************)
C4_DefaultFallbackAllows ==
    \A r \in Requests :
        LET q == req[r]
        IN  (options.fallbackRule = Undefined /\ q.pc # "idle" /\ q.found = Null) =>
                /\ q.rule = allow
                /\ ~Went(q, "denied")
                /\ q.tasks[1].pc = "done" => q.tasks[1].result = TrueV
                /\ q.pc # "evaluating" => q.nextCalls = 1 /\ q.nextArg = NextOptions(q.context)

C4_Witness ==
    \E r \in Requests :
        /\ options.fallbackRule = Undefined
        /\ rules = ObjV(<<>>)
        /\ Len(req[r].path) = 2
        /\ req[r].pc = "returned"
        /\ req[r].nextCalls = 1

(***************************************************************************)
(* C5: findRuleInTree(tree, P) is the rule R the tree maps P to, so the    *)
(* dispatcher evaluates R; a path that differs from P only in letter case  *)
(* does not resolve to R.                                                  *)
(***************************************************************************)
RECURSIVE CaseVariants(_)
CaseVariants(path) ==
    IF path = <<>>
    THEN {<<>>}
    ELSE {<<h>> \o t : h \in {s \in Segments : ToLower(s) = ToLower(Head(path))},
                       t \in CaseVariants(Tail(path))}

C5_ResolverRoundTrip ==
    \A r \in Requests :
        LET q == req[r]
            R == MappedRule(rules, q.path)
        IN  (built = "ready" /\ q.pc # "idle") =>
                /\ R # Null => q.found = R /\ q.rule = R /\ q.tasks[1].rule = R
                /\ \A p \in CaseVariants(q.path) :
                      LET other == MappedRule(rules, p)
                      IN  (p # q.path /\ other # Null /\ other # R) => q.found # other

C5_Witness ==
    \E r \in Requests :
        /\ built = "ready"
        /\ req[r].path = <<"A", "a">>
        /\ req[r].pc = "evaluating"
        /\ MappedRule(rules, <<"A", "a">>) = Leaf(2)
        /\ req[r].found = Leaf(2)
        /\ MappedRule(rules, <<"a">>) = Leaf(1)

(***************************************************************************)
(* C6: a path that runs past a Rule of the tree resolves to not-found.     *)
(***************************************************************************)
C6_PastRuleNotFound ==
    \A r \in Requests :
        LET q == req[r]
        IN  (/\ built = "ready"
             /\ q.pc # "idle"
             /\ \E k \in 0..(Len(q.path) - 1) : MappedRule(rules, SubSeq(q.path, 1, k)) # Null)
            => q.found = Null

(***************************************************************************)
(* C7: a path that ends on a sub-tree of an accepted tree resolves to      *)
(* not-found.                                                              *)
(***************************************************************************)
C7_SubtreeNotFound ==
    \A r \in Requests :
        LET q == req[r]
        IN  (built = "ready" /\ q.pc # "idle" /\ NodeAt(rules, q.path).cls = "Object")
            => q.found = Null

(***************************************************************************)
(* The calls a logic rule made for its members.                            *)
(***************************************************************************)
\* every call is for a distinct member, the members are called in argument
\* order without gaps, and each call is a call of that member
CalledInOrder(ts, t) ==
    LET ms == Members(ts[t].rule)
        kids == Children(ts, t)
    IN  /\ \A c \in kids : ts[c].idx \in 1..Cardinality(kids) /\ ts[c].idx <= Len(ms)
        /\ \A c \in kids : ts[c].rule = ms[ts[c].idx] /\ ts[c].params = ts[t].params
        /\ \A c, d \in kids : ts[c].idx = ts[d].idx => c = d
        /\ \A c, d \in kids : ts[c].idx < ts[d].idx => c < d

Passed(task) == task.pc = "done" /\ task.result = TrueV
Failed(task) == task.pc = "done" /\ task.result # TrueV

(***************************************************************************)
(* C8: And evaluates its rules in argument order, returns the first result *)
(* that is not `true` unchanged and evaluates no rule after it; it returns *)
(* `true` if the list is empty or every rule returns `true`.               *)
(***************************************************************************)
C8_AndShortCircuit ==
    \A r \in Requests : \A t \in DOMAIN req[r].tasks :
        LET ts == req[r].tasks
            ms == Members(ts[t].rule)
            kids == Children(ts, t)
        IN  ts[t].rule.cls = "RuleAnd" =>
                /\ CalledInOrder(ts, t)
                /\ \A c, d \in kids : ts[c].idx < ts[d].idx => Passed(ts[c])
                /\ ts[t].pc = "done" =>
                      IF \E c \in kids : Failed(ts[c])
                      THEN \A c \in kids : Failed(ts[c]) => ts[t].result = ts[c].result
                      ELSE /\ Cardinality(kids) = Len(ms)
                           /\ \A c \in kids : Passed(ts[c])
                           /\ ts[t].result = TrueV

C8_Witness ==
    \E r \in Requests : \E t \in DOMAIN req[r].tasks :
        LET ts == req[r].tasks
        IN  /\ ts[t].rule = MkLogic("RuleAnd", "RuleAnd", <<Leaf(1), Leaf(2)>>)
            /\ ts[t].pc = "done"
            /\ ts[t].result = StrV("Not allowed")
            /\ \E c \in Children(ts, t) : ts[c].idx = 2 /\ ts[c].result = StrV("Not allowed")

(***************************************************************************)
(* C9: Or evaluates its rules in argument order and returns `true` as soon *)
(* as one returns `true`: the failing rules before the first passing rule  *)
(* are all evaluated and no rule after it is.                              *)
(***************************************************************************)
C9_OrStopsAtFirstPass ==
    \A r \in Requests : \A t \in DOMAIN req[r].tasks :
        LET ts == req[r].tasks
            ms == Members(ts[t].rule)
            kids == Children(ts, t)
        IN  ts[t].rule.cls = "RuleOr" =>
                /\ CalledInOrder(ts, t)
                /\ \A c, d \in kids : ts[c].idx < ts[d].idx => Failed(ts[c])
                /\ ts[t].pc = "done" =>
                      IF \E c \in kids : Passed(ts[c])
                      THEN ts[t].result = TrueV
                      ELSE /\ Cardinality(kids) = Len(ms)
                           /\ \A c \in kids : Failed(ts[c])
                           /\ ts[t].result # TrueV

C9_Witness ==
    \E r \in Requests : \E t \in DOMAIN req[r].tasks :
        LET ts == req[r].tasks
        IN  /\ ts[t].rule = MkLogic("RuleOr", "outer", <<deny, Leaf(1)>>)
            /\ ts[t].pc = "done"
            /\ ts[t].result = TrueV
            /\ \E c \in Children(ts, t) : ts[c].idx = 1 /\ Failed(ts[c])
            /\ \E c \in Children(ts, t) : ts[c].idx = 2 /\ Passed(ts[c])

(***************************************************************************)
(* C10: when every rule of a non-empty Or fails, Or returns the result of  *)
(* the first rule unchanged, whatever its shape; "All rules failed" is     *)
(* returned only by an Or over no rules.                                   *)
(***************************************************************************)
C10_OrReturnsFirstFailure ==
    \A r \in Requests : \A t \in DOMAIN req[r].tasks :
        LET ts == req[r].tasks
            ms == Members(ts[t].rule)
            kids == Children(ts, t)
        IN  (ts[t].rule.cls = "RuleOr" /\ ts[t].pc = "done") =>
                /\ (ms # <<>> /\ \A c \in kids : Failed(ts[c])) =>
                      \A c \in kids : ts[c].idx = 1 => ts[t].result = ts[c].result
                /\ ts[t].result = ErrV("All rules failed") => ms = <<>>

(***************************************************************************)
(* C11: Not yields the fixed denial "Rule should not pass" when the rule   *)
(* it wraps yields true, and yields true for every other result of the     *)
(* wrapped rule; the wrapped rule's own message never appears in the       *)
(* result of Not.                                                          *)
(***************************************************************************)
C11_NotInverts ==
    \A r \in Requests : \A t \in DOMAIN req[r].tasks :
        LET ts == req[r].tasks IN
        (ts[t].rule.cls = "RuleNot" /\ ts[t].pc = "done") =>
            \E c \in Children(ts, t) :
                /\ ts[c].idx = 1 /\ ts[c].pc = "done"
                /\ ts[c].rule = Get(ts[t].rule, "rule")
                /\ ts[c].result = TrueV => ts[t].result = ErrV("Rule should not pass")
                /\ ts[c].result # TrueV => ts[t].result = TrueV
                /\ Failed(ts[c]) /\ ts[c].result.cls \in {"String", "Error"}
                      => ~(IsError(ts[t].result) /\ ts[t].result.val = ts[c].result.val)

\* a wrapped rule that denied with its own message, turned into a pass by Not
C11_Witness ==
    \E r \in Requests : \E t \in DOMAIN req[r].tasks : \E c \in Children(req[r].tasks, t) :
        /\ req[r].tasks[t].rule.cls = "RuleNot" /\ req[r].tasks[t].pc = "done"
        /\ req[r].tasks[c].result = StrV("Not allowed")
        /\ req[r].tasks[t].result = TrueV

(***************************************************************************)
(* C12: Race over a non-empty list returns the result of the member call   *)
(* that settled first, a pass or a denial alike; the result of a member    *)
(* that settles later never becomes the result of Race.                    *)
(***************************************************************************)
C12_RaceFirstSettled ==
    \A r \in Requests : \A t \in DOMAIN req[r].tasks :
        LET ts == req[r].tasks
            settled == {c \in Children(ts, t) : HasSettled(ts[c])}
        IN  (ts[t].rule.cls = "RuleRace" /\ Members(ts[t].rule) # <<>>) =>
                /\ {ts[c].idx : c \in Children(ts, t)} = 1..Len(Members(ts[t].rule))
                /\ ts[t].pc = "done" =>
                      \E c \in settled :
                          /\ \A d \in settled \ {c} : ts[c].doneAt < ts[d].doneAt
                          /\ ts[c].doneAt < ts[t].doneAt
                          /\ ts[c].pc = "done" /\ ts[t].result = ts[c].result

\* Race passed with its first settled member although a later member denied
C12_Witness ==
    \E r \in Requests : \E t \in DOMAIN req[r].tasks :
        LET ts == req[r].tasks IN
        /\ ts[t].rule.cls = "RuleRace" /\ ts[t].pc = "done" /\ ts[t].result = TrueV
        /\ \E c, d \in Children(ts, t) :
              /\ Passed(ts[c]) /\ Failed(ts[d]) /\ ts[d].idx < ts[c].idx
              /\ ts[c].doneAt < ts[d].doneAt /\ ts[t].doneAt < ts[d].doneAt

(***************************************************************************)
(* C13: Chain has the semantics of And: on the same member list and the    *)
(* same results of the members, chain and and evaluate the same members    *)
(* in the same order and return the same result.                           *)
(***************************************************************************)
\* the first step of resolve of the logic class cls over members
LoopOf(cls, members) ==
    IF cls = "RuleAnd" THEN RuleAndLoop(members, 1) ELSE RuleChainLoop(members, 1)

\* the step of resolve of the logic class cls after member i gave result
StepOf(cls, members, i, result) ==
    IF cls = "RuleAnd" THEN RuleAndResume(members, i, result)
    ELSE RuleChainResume(members, i, result)

\* where resolve of class cls stands after the members gave results[1..n]
RECURSIVE Replay(_, _, _, _)
Replay(cls, members, results, n) ==
    IF n = 0 THEN LoopOf(cls, members)
    ELSE LET before == Replay(cls, members, results, n - 1)
         IN  IF before.op = "call" /\ before.i = n
             THEN StepOf(cls, members, n, results[n])
             ELSE before

\* the other one of the two classes
Twin(cls) == IF cls = "RuleAnd" THEN "RuleChain" ELSE "RuleAnd"

\* the results call t has received from its members so far
Received(ts, t) ==
    LET n == IF ts[t].pc = "done" THEN Cardinality(Children(ts, t)) ELSE ts[t].i - 1
    IN  [j \in 1..n |-> ts[CHOOSE c \in Children(ts, t) : ts[c].idx = j].result]

C13_ChainIsAnd ==
    \A r \in Requests : \A t \in DOMAIN req[r].tasks :
        LET ts == req[r].tasks
            got == Received(ts, t)
            twin == Replay(Twin(ts[t].rule.cls), Members(ts[t].rule), got, Len(got))
        IN  ts[t].rule.cls \in {"RuleAnd", "RuleChain"} =>
                /\ CalledInOrder(ts, t)
                /\ ts[t].pc = "done" => twin = Return(ts[t].result)
                /\ ts[t].pc # "done" => twin = CallMember(ts[t].i, <<>>)

\* a chain that stopped at its failing second member, as and would have
C13_Witness ==
    \E r \in Requests : \E t \in DOMAIN req[r].tasks :
        LET ts == req[r].tasks IN
        /\ ts[t].rule.cls = "RuleChain" /\ ts[t].pc = "done"
        /\ Len(Members(ts[t].rule)) = 2
        /\ \E c, d \in Children(ts, t) :
              /\ ts[c].idx = 1 /\ Passed(ts[c])
              /\ ts[d].idx = 2 /\ Failed(ts[d]) /\ ts[t].result = ts[d].result

(***************************************************************************)
(* C14: a Rule built from a decision function never hands an exception to  *)
(* its caller: when the function throws or rejects, resolve yields an      *)
(* Error carrying the message of the thrown Error, or the thrown value     *)
(* coerced to a string when it is not an Error; otherwise resolve yields   *)
(* the function's own result unchanged.                                    *)
(***************************************************************************)
C14_RuleNeverThrows ==
    \A r \in Requests : \A t \in DOMAIN req[r].tasks :
        LET call == req[r].tasks[t]
            o == call.settled
        IN  (call.rule.cls = "Rule" /\ o.how # "pending") =>
                /\ call.pc = "done"
                /\ o.how \in {"return", "fulfil"} => call.result = o.v
                /\ o.how \in {"throw", "reject"} =>
                      /\ call.result.cls = "Error"
                      /\ IsError(o.v) => call.result = o.v
                      /\ o.v.cls = "String" => call.result.val = o.v.val
                      /\ o.v.cls = "Object" => call.result.val = "[object Object]"

\* a decision function that rejected with a plain object, answered as an Error
C14_Witness ==
    \E r \in Requests : \E t \in DOMAIN req[r].tasks :
        /\ req[r].tasks[t].rule.cls = "Rule"
        /\ req[r].tasks[t].settled = Settled("reject", Val("Object", "", <<>>))
        /\ req[r].tasks[t].result = ErrV("[object Object]")

\* the message an exception carries: String(error) when it is not an Error
MessageOf(error) == IF IsError(error) THEN error.val ELSE StringOf(error)

\* the exception raised while the governing rule of q was evaluated, if any:
\* what its decision function threw, or what its resolve rejected with
RootFault(q) ==
    LET root == q.tasks[1]
    IN  IF root.pc = "failed" THEN <<root.result>>
        ELSE IF root.rule.cls = "Rule" /\ root.settled.how \in {"throw", "reject"}
        THEN <<root.settled.v>>
        ELSE <<>>

(***************************************************************************)
(* C15: for every rule the validator accepts (an object whose resolve is   *)
(* a function) and either setting of allowExternalErrors, an exception     *)
(* raised during the evaluation of the governing rule never leaves the     *)
(* dispatcher raw: the request ends in a Denial carrying the exception's   *)
(* message, and next is not called.                                        *)
(***************************************************************************)
C15_RuleFaultIsDenial ==
    \A r \in Requests :
        LET q == req[r] IN
        (q.tasks # <<>> /\ q.pc # "evaluating" /\ RootFault(q) # <<>>) =>
            /\ q.pc = "raised"
            /\ q.nextCalls = 0
            /\ IsDenial(q.outcome)
            /\ q.outcome.val = MessageOf(RootFault(q)[1])

\* next was called with { context } holding the context of the request as it came in
CalledWithOwnContext(q) ==
    /\ q.nextArg = ObjV(<<Ent("context", q.context)>>)
    /\ q.context = NewRequest(q.path).context
    /\ q.input = NewRequest(q.path).input

\* a step of the middleware leaves context, input, rule tree and options as they are
DispatchFrame ==
    /\ \A r \in Requests : req'[r].context = req[r].context /\ req'[r].input = req[r].input
    /\ built # "pending" => rules' = rules /\ options' = options

(***************************************************************************)
(* C16: when the governing rule allows, next is called with the very       *)
(* context the dispatcher received and the dispatcher returns exactly      *)
(* what next returns; the dispatcher never changes the context, the        *)
(* input, the rule tree or its options.                                    *)
(***************************************************************************)
C16_ContextAndResultUntouched ==
    /\ [](\A r \in Requests :
            /\ req[r].nextCalls >= 1 => req[r].result = TrueV /\ CalledWithOwnContext(req[r])
            /\ req[r].pc = "returned" =>
                  /\ req[r].nextSettled.how \in {"return", "fulfil"}
                  /\ req[r].outcome = req[r].nextSettled.v)
    /\ [][DispatchFrame]_vars

\* an allowed request that returned the handler's result to its caller
C16_Witness ==
    \E r \in Requests :
        /\ req[r].pc = "returned" /\ req[r].result = TrueV
        /\ req[r].nextCalls = 1 /\ CalledWithOwnContext(req[r])
        /\ req[r].outcome = HandlerResult

(***************************************************************************)
(* C17: every denial that leaves the dispatcher carries a message and the  *)
(* path of the request, be it the plain ShieldError or the error tagged    *)
(* with denyErrorCode.                                                     *)
(***************************************************************************)
C17_DenialCarriesPath ==
    \A r \in Requests :
        (req[r].pc = "raised" /\ IsDenial(req[r].outcome)) =>
            /\ req[r].outcome.val \in STRING
            /\ \E i \in DOMAIN req[r].outcome.ents :
                  req[r].outcome.ents[i] = Ent("path", PathV(req[r].path))

(***************************************************************************)
(* C18: with denyErrorCode set, every denial produced by the rule is       *)
(* raised as an ORPCError tagged with exactly that code and carrying the   *)
(* denial's message (shieldForORPC sets the code FORBIDDEN); with no       *)
(* denyErrorCode the plain ShieldError is raised. Whether the request is   *)
(* allowed depends on the rule's result alone, never on the code.          *)
(***************************************************************************)
C18_DenyErrorCodeTags ==
    \A r \in Requests :
        LET q == req[r]
            denial == processRuleResult(q.result, q.path)
        IN  /\ (factory = "shieldForORPC" /\ built # "pending") =>
                    options.denyErrorCode = StrV("FORBIDDEN")
            /\ (Went(q, "denied") /\ options.denyErrorCode # Undefined) =>
                    q.outcome = Val("ORPCError", denial.val, <<Ent("code", options.denyErrorCode)>>)
            /\ (Went(q, "denied") /\ options.denyErrorCode = Undefined) =>
                    q.outcome = Val("ShieldError", denial.val, <<Ent("path", PathV(q.path))>>)
            /\ (q.tasks # <<>> /\ q.pc # "evaluating" /\ q.tasks[1].pc = "done") =>
                    /\ Went(q, "denied") <=> q.tasks[1].result # TrueV
                    /\ Went(q, "allowed") <=> q.tasks[1].result = TrueV

\* a denial raised through shieldForORPC, tagged FORBIDDEN
C18_Witness ==
    \E r \in Requests :
        /\ factory = "shieldForORPC"
        /\ Went(req[r], "denied") /\ req[r].result = StrV("Not allowed")
        /\ req[r].outcome = Val("ORPCError", "Not allowed", <<Ent("code", StrV("FORBIDDEN"))>>)

\* next itself raised: it threw when called, or the promise it returned rejected
NextRaised(q) == q.nextSettled.how \in {"throw", "reject"}

(***************************************************************************)
(* C19: with allowExternalErrors true (the default), whatever next raises, *)
(* thrown when called or delivered as a rejection, an Error or any other   *)
(* value, reaches the caller of the dispatcher unchanged, for every        *)
(* denyErrorCode.                                                          *)
(***************************************************************************)
C19_ExternalErrorsPassThrough ==
    \A r \in Requests :
        (NextRaised(req[r]) /\ options.allowExternalErrors \in {Undefined, TrueV}) =>
            /\ req[r].pc = "raised"
            /\ req[r].outcome = req[r].nextSettled.v

(***************************************************************************)
(* C20: with allowExternalErrors false, whatever next raises, thrown when  *)
(* called or delivered as a rejection, reaches the caller as a denial: a   *)
(* ShieldError with the fault's message and the request path, or the       *)
(* error tagged with denyErrorCode when one is set; never the raw fault.   *)
(***************************************************************************)
C20_ExternalErrorsConverted ==
    \A r \in Requests :
        LET q == req[r]
            message == MessageOf(q.nextSettled.v)
        IN  (NextRaised(q) /\ options.allowExternalErrors = FalseV) =>
                /\ q.pc = "raised"
                /\ q.outcome = IF options.denyErrorCode = Undefined
                               THEN Val("ShieldError", message, <<Ent("path", PathV(q.path))>>)
                               ELSE Val("ORPCError", message, <<Ent("code", options.denyErrorCode)>>)

ConvertedFailure(q) ==
    /\ q.nextSettled.how = "throw"
    /\ options.allowExternalErrors = FalseV \/ ~IsError(q.nextSettled.v)

RECURSIVE InvalidEntries(_, _, _)
InvalidEntries(tree, path, i) ==
    IF i > Len(tree.ents)
    THEN <<>>
    ELSE LET value == tree.ents[i].v
             here == Append(path, tree.ents[i].k)
             isRule == HasProperty(value, "resolve") /\ TypeOf(Get(value, "resolve")) = "function"
             inside == IF ~(Truthy(value) /\ TypeOf(value) = "object") THEN <<here>>
                       ELSE IF isRule THEN <<>>
                       ELSE InvalidEntries(value, here, 1)
         IN  inside \o InvalidEntries(tree, path, i + 1)

(***************************************************************************)
(* C22: building a dispatcher from a malformed tree fails at construction  *)
(* with an error that names the dotted path of the first invalid entry of  *)
(* the recursive visit; no middleware is returned, so no request is ever   *)
(* served against a malformed tree.                                        *)
(***************************************************************************)
C22_ConstructionFailsAtFirstInvalid ==
    LET invalid == InvalidEntries(rules, <<>>, 1) IN
    /\ (built # "pending" /\ invalid # <<>>) =>
          /\ built = "invalid"
          /\ buildError = "Invalid rule at path " \o Join(invalid[1])
                             \o ": Expected rule or nested rules object"
    /\ built = "invalid" => invalid # <<>>
    /\ built # "ready" => \A r \in Requests : req[r] = NewRequest(req[r].path)

\* a tree with two invalid entries, refused for the first one visited, `a.A`
C22_Witness ==
    /\ built = "invalid"
    /\ Len(InvalidEntries(rules, <<>>, 1)) = 2
    /\ buildError = "Invalid rule at path a.A: Expected rule or nested rules object"
    /\ \A r \in Requests : req[r].pc = "idle"

\* value is a Rule: an object exposing a callable resolve
IsRuleValue(value) ==
    /\ TypeOf(value) = "object" /\ value.cls # "Null"
    /\ HasProperty(value, "resolve") /\ TypeOf(Get(value, "resolve")) = "function"

\* every value of the mapping tree, at every level, is a Rule or a nested Rule Tree:
\* a plain object that exposes no resolve and whose values are well formed in turn
RECURSIVE WellFormedTree(_)
WellFormedTree(tree) ==
    \A i \in DOMAIN tree.ents :
        LET value == tree.ents[i].v IN
        \/ IsRuleValue(value)
        \/ /\ value.cls = "Object"
           /\ ~HasProperty(value, "resolve")
           /\ WellFormedTree(value)

(***************************************************************************)
(* C23: in every tree for which construction succeeds, every value at      *)
(* every level is a Rule or a nested Rule Tree; a primitive, null, a       *)
(* function, an array or other non-mapping object, or an object whose      *)
(* resolve is not callable makes construction fail.                        *)
(***************************************************************************)
C23_BuiltTreesWellFormed ==
    built = "ready" => WellFormedTree(rules)

\* result is an object of the form { ctx: ... }
IsContextExtension(result) ==
    result.cls = "Object" /\ \E i \in DOMAIN result.ents : result.ents[i].k = "ctx"

(***************************************************************************)
(* C24: a rule whose decision function returns an object { ctx: ... }      *)
(* allows the request, and next receives the context extended with that    *)
(* object.                                                                 *)
(***************************************************************************)
C24_ContextExtensionAllows ==
    \A r \in Requests :
        LET q == req[r] IN
        (q.tasks # <<>> /\ q.pc # "evaluating" /\ q.tasks[1].pc = "done"
            /\ IsContextExtension(q.tasks[1].result)) =>
                /\ Went(q, "allowed")
                /\ q.nextCalls = 1
                /\ q.nextArg = ObjV(<<Ent("context", Get(q.tasks[1].result, "ctx"))>>)

\* what request q comes to when it runs alone: every field of its own call of
\* shieldMiddleware follows from its own context, path, input and rule answers
RunsUnder(q, opts) ==
    q.pc # "idle" =>
        /\ q.found = findRuleInTree(rules, q.path)
        /\ q.rule = Governing(q.found, opts)
        /\ q.tasks = <<>> =>
              q.pc = "raised" /\ q.outcome = Caught(NotAFunction, q.path, opts)
        /\ q.tasks # <<>> =>
              /\ q.tasks[1].rule = q.rule
              /\ \A t \in DOMAIN q.tasks : q.tasks[t].params = Params(q)
              /\ q.pc # "evaluating" => HasSettled(q.tasks[1])
        /\ (q.pc # "evaluating" /\ q.tasks # <<>> /\ q.tasks[1].pc = "failed") =>
              q.outcome = Caught(q.tasks[1].result, q.path, opts)
        /\ (q.pc # "evaluating" /\ q.tasks # <<>> /\ q.tasks[1].pc = "done") =>
              IF q.tasks[1].result # TrueV
              THEN /\ q.pc = "raised" /\ q.nextCalls = 0
                   /\ q.outcome =
                         Caught(processRuleResult(q.tasks[1].result, q.path), q.path, opts)
              ELSE /\ q.nextCalls = 1
                   /\ q.nextArg = ObjV(<<Ent("context", q.context)>>)
                   /\ q.pc = "returned" => q.outcome = q.nextSettled.v
                   /\ q.pc = "raised" =>
                         q.outcome = IF q.nextSettled.how = "throw"
                                     THEN Caught(q.nextSettled.v, q.path, opts)
                                     ELSE q.nextSettled.v

\* the request ran as shieldMiddleware runs it under the options of the dispatcher
RunsAsAlone(q) == RunsUnder(q, options)

\* a step of one request leaves every other request as it is
OneRequestSteps ==
    \A r, s \in DOMAIN req : (r # s /\ req'[r] # req[r]) => req'[s] = req[s]

(***************************************************************************)
(* C25: concurrent requests on one dispatcher are independent: under every *)
(* interleaving each request's outcome is the one it has when it runs      *)
(* alone with the same context, path, input and rule answers, and nothing  *)
(* computed for one request is kept for or used by another.                *)
(***************************************************************************)
C25_RequestsIndependent ==
    /\ [](\A r \in DOMAIN req : RunsAsAlone(req[r]))
    /\ [][OneRequestSteps]_vars

\* two requests in flight at once: one already denied under its own path, the other
\* waiting for its handler
C25_Witness ==
    \E r, s \in DOMAIN req :
        /\ req[r].pc = "raised" /\ Went(req[r], "denied") /\ req[r].path = <<"A">>
        /\ req[r].outcome.val = "Rule should not pass"
        /\ req[s].pc = "delegated" /\ req[s].path = <<"a">>
        /\ req[s].context # req[r].context


(***************************************************************************)
(* Sequential evaluation inside and(), or() and chain().                   *)
(***************************************************************************)
\* the logic rules whose resolve awaits each member inside its for loop
IsSequential(rule) == rule.cls \in {"RuleAnd", "RuleOr", "RuleChain"}

\* the calls call t has made are those of members 1..i, made in that order,
\* and only the call of member i may still be pending
OneMemberAtATime(ts, t) ==
    /\ \A c \in Children(ts, t) : ts[c].idx \in 1..ts[t].i
    /\ \A k \in 1..ts[t].i : \E c \in Children(ts, t) : ts[c].idx = k
    /\ \A c, d \in Children(ts, t) :
            /\ ts[c].idx = ts[d].idx => c = d
            /\ ts[c].idx < ts[d].idx =>
                    /\ c < d
                    /\ HasSettled(ts[c])
                    /\ ts[d].doneAt = 0 \/ ts[c].doneAt < ts[d].doneAt

\* C26: inside and(), or() and chain(), at any nesting depth, member i + 1 is
\* called only after the call of member i has settled, and members are
\* called in argument order.
C26_MembersOneAtATime ==
    \A r \in DOMAIN req : \A t \in DOMAIN req[r].tasks :
        IsSequential(req[r].tasks[t].rule) => OneMemberAtATime(req[r].tasks, t)

\* an inner and() under or() has called both of its members, the second one
\* while no other call was pending, and or() has then called its own second
C26_Witness ==
    \E r \in DOMAIN req : \E t, u \in DOMAIN req[r].tasks :
        LET ts == req[r].tasks
        IN  /\ IsSequential(ts[t].rule) /\ IsSequential(ts[u].rule)
            /\ ts[u].parent = t /\ ts[u].idx = 1
            /\ Cardinality(Children(ts, u)) = 2
            /\ Cardinality(Children(ts, t)) = 2
            /\ \E d \in Children(ts, t) : ts[d].idx = 2 /\ ~HasSettled(ts[d])


(***************************************************************************)
(* race(): every member is called at once and none is cancelled.           *)
(***************************************************************************)
\* this.rules.map(...) has called every member of call t, in argument order
AllMembersCalled(ts, t) ==
    /\ Cardinality(Children(ts, t)) = Len(Members(ts[t].rule))
    /\ CalledInOrder(ts, t)

\* a step leaves what has settled as it was: the result of a settled call,
\* the call made to next, and the outcome of a finished request
SettledStays(q, q2) ==
    /\ \A t \in DOMAIN q.tasks :
            HasSettled(q.tasks[t]) =>
                /\ q2.tasks[t].pc = q.tasks[t].pc
                /\ q2.tasks[t].result = q.tasks[t].result
                /\ q2.tasks[t].doneAt = q.tasks[t].doneAt
    /\ q.pc \in {"delegated", "returned", "raised"} =>
            /\ q2.nextCalls = q.nextCalls
            /\ q2.nextArg = q.nextArg
            /\ q2.result = q.result
    /\ q.pc \in {"returned", "raised"} => q2.pc = q.pc /\ q2.outcome = q.outcome

\* C27: race() calls every member before any of them settles and cancels
\* none: after it has returned the winner's result, and after the request
\* has been delegated or denied, every other member still settles, and that
\* changes neither the result of race() nor the outcome of the request.
C27_RaceLosersRunOn ==
    /\ [](\A r \in DOMAIN req : \A t \in DOMAIN req[r].tasks :
            req[r].tasks[t].rule.cls = "RuleRace" => AllMembersCalled(req[r].tasks, t))
    /\ [][\A r \in DOMAIN req : SettledStays(req[r], req'[r])]_vars
    /\ <>[](\A r \in DOMAIN req : \A t \in DOMAIN req[r].tasks :
            req[r].tasks[t].rule.cls = "RuleRace" =>
                \A c \in Children(req[r].tasks, t) : HasSettled(req[r].tasks[c]))

\* the request governed by a race() is over, and the member that lost has
\* settled after race() returned, with another result than the winner's
C27_Witness ==
    \E r \in DOMAIN req : \E c \in DOMAIN req[r].tasks :
        LET ts == req[r].tasks
        IN  /\ req[r].pc \in {"returned", "raised"}
            /\ ts[1].rule.cls = "RuleRace" /\ ts[1].pc = "done"
            /\ ts[c].parent = 1 /\ HasSettled(ts[c])
            /\ ts[c].doneAt > ts[1].doneAt
            /\ ts[c].result # ts[1].result


(***************************************************************************)
(* Which calls of resolve settle.                                          *)
(***************************************************************************)
RECURSIVE AllSettle(_)
\* a rule built from decision functions that settle, with no race() over an
\* empty list in it
AllSettle(rule) ==
    IF rule.cls \in {"Rule", "Object"} THEN TRUE
    ELSE /\ rule.cls = "RuleRace" => Len(Members(rule)) >= 1
         /\ \A i \in 1..Len(Members(rule)) : AllSettle(Members(rule)[i])

\* race() with no rules: `await Promise.race([])`
IsEmptyRace(rule) == rule.cls = "RuleRace" /\ Len(Members(rule)) = 0

\* C28: and(), or(), not() and chain() over rules that all settle do settle,
\* and so does race() over a non-empty list of them; race() over no rules
\* never settles, and a request it governs stays in evaluation: next is never
\* called and nothing is raised.
C28_EvaluationSettles ==
    /\ <>[](\A r \in DOMAIN req : \A t \in DOMAIN req[r].tasks :
                AllSettle(req[r].tasks[t].rule) => HasSettled(req[r].tasks[t]))
    /\ [](\A r \in DOMAIN req : \A t \in DOMAIN req[r].tasks :
                IsEmptyRace(req[r].tasks[t].rule) => ~HasSettled(req[r].tasks[t]))
    /\ [](\A r \in DOMAIN req :
                (req[r].pc # "idle" /\ IsEmptyRace(req[r].rule)) =>
                    /\ req[r].pc = "evaluating"
                    /\ req[r].nextCalls = 0
                    /\ req[r].outcome = NewRequest(req[r].path).outcome)

\* a request governed by race() waits for a race nobody runs in
C28_Witness ==
    \E r \in DOMAIN req :
        /\ req[r].pc = "evaluating"
        /\ req[r].found # Null
        /\ IsEmptyRace(req[r].found)
        /\ Len(req[r].tasks) = 1
        /\ req[r].tasks[1].pc = "await"
        /\ Children(req[r].tasks, 1) = {}


(***************************************************************************)
(* The one rule a request evaluates.                                       *)
(***************************************************************************)
\* the calls of resolve made by shieldMiddleware itself
TopLevelCalls(q) == {t \in DOMAIN q.tasks : q.tasks[t].parent = 0}

\* the message a result other than true denies with
DenialMessage(result) ==
    IF TypeOf(result) = "string" \/ IsError(result) THEN result.val ELSE "Access denied"

\* request q called resolve on at most one rule, the rule found when one was
\* found and the fallback rule when none was
OneGoverningRule(q) ==
    /\ Cardinality(TopLevelCalls(q)) <= 1
    /\ \A t \in TopLevelCalls(q) :
            /\ t = 1
            /\ q.tasks[t].params = Params(q)
            /\ q.tasks[t].rule =
                    IF Truthy(q.found) THEN q.found ELSE WithDefaults(options).fallbackRule
    /\ (q.pc \in {"delegated", "returned"} \/ Went(q, "denied")) =>
            Cardinality(TopLevelCalls(q)) = 1

\* C29: the fallback rule is evaluated only when no rule was found: a request
\* whose path resolves to a rule evaluates that rule, and when it denies the
\* request is denied with its message whatever the fallback rule would answer;
\* a request evaluates one governing rule, once.
C29_FallbackOnlyWhenNotFound ==
    \A r \in DOMAIN req :
        LET q == req[r]
        IN  (built = "ready" /\ q.pc # "idle") =>
                /\ q.found = findRuleInTree(rules, q.path)
                /\ OneGoverningRule(q)
                /\ (Truthy(q.found) /\ q.tasks # <<>> /\ q.tasks[1].pc = "done"
                        /\ q.tasks[1].result # TrueV /\ q.pc # "evaluating") =>
                        /\ q.pc = "raised"
                        /\ q.nextCalls = 0
                        /\ IsDenial(q.outcome)
                        /\ q.outcome.val = DenialMessage(q.tasks[1].result)

\* the rule at the path denied with a message of its own while the fallback
\* rule allows: the request is denied with that message
C29_Witness ==
    \E r \in DOMAIN req :
        LET q == req[r]
        IN  /\ q.pc = "raised"
            /\ Truthy(q.found)
            /\ WithDefaults(options).fallbackRule = allow
            /\ q.found # allow
            /\ Len(q.tasks) = 1
            /\ q.tasks[1].result = StrV("Not allowed")
            /\ q.outcome.val = "Not allowed"


(***************************************************************************)
(* debug and shieldDebug.                                                  *)
(***************************************************************************)
\* the options with debug switched off
Undebugged(opts) == [opts EXCEPT !.debug = FalseV]

\* every logic rule of request q called its members as its resolve does
SameEvaluations(q) ==
    \A t \in DOMAIN q.tasks :
        /\ q.tasks[t].parent = 0 =>
                t = 1 /\ q.tasks[t].rule = Governing(q.found, Undebugged(options))
        /\ q.tasks[t].rule.cls \notin {"Rule", "Object"} => CalledInOrder(q.tasks, t)

\* C30: debug only observes: with debug true, and under shieldDebug whatever
\* the other options are, a request resolves and evaluates the same rules and
\* ends with the same call of next and the same result or error as with debug
\* false; only the console differs.
C30_DebugObservesOnly ==
    /\ (factory = "shieldDebug" /\ built # "pending") => options.debug = TrueV
    /\ \A r \in DOMAIN req :
            /\ RunsUnder(req[r], Undebugged(options))
            /\ SameEvaluations(req[r])
            /\ ~Truthy(WithDefaults(options).debug) => req[r].log = <<>>
            /\ (Truthy(WithDefaults(options).debug) /\ req[r].pc # "idle") =>
                    /\ req[r].log # <<>>
                    /\ req[r].log[1] = ProcessingLine(req[r].path)

\* a dispatcher made by shieldDebug from options naming debug false and a deny
\* code: the rule's error was logged and the request raised as without debug
C30_Witness ==
    \E r \in DOMAIN req :
        /\ factory = "shieldDebug"
        /\ options.debug = TrueV
        /\ options.denyErrorCode = StrV("FORBIDDEN")
        /\ req[r].pc = "raised"
        /\ Went(req[r], "denied")
        /\ Len(req[r].log) = 3
        /\ req[r].log[2].text = "[oRPC Shield] Rule result for a: Error: Forbidden by rule"
        /\ req[r].log[3].level = "error"
        /\ req[r].outcome = ORPCError(options.denyErrorCode, "Forbidden by rule")

====
